---- MODULE Spec2Model ----
(***************************************************************************)
(* Courier-Cost-Analyzer: the reconciliation pipeline of src/app.py        *)
(* (predict, download, _allowed_file, _read_dataframe) as a state machine. *)
(*                                                                         *)
(* Text is modelled as a sequence of one-character strings, a table cell   *)
(* as a record [t, v, s] (t = "null" | "num" | "str"), a DataFrame as a    *)
(* record [columns, rows] whose rows are tuples aligned with columns.      *)
(***************************************************************************)
EXTENDS Integers, Sequences, FiniteSets, TLC

VARIABLES
    raw_columns,    \* df.columns as read from the file (app.py:181)
    columns,        \* df.columns after the cleaning chain (app.py:184-190)
    norm_pc,        \* "raw" before the chain ran, "clean" after
    uploads,        \* request.files.getlist("files") of the request being sent
    dfs,            \* predict's list of tables to merge (app.py:172)
    file_summaries, \* predict's list of per-file summaries (app.py:171)
    flashed,        \* the notices flashed by the last request
    origin,         \* history: the upload each df, summary and notice came from
    merged_df,      \* predict's merged table (app.py:229-249)
    summary,        \* predict's reconciliation summary (app.py:252-265)
    response,       \* what the last request returned
    result_file,    \* the content of RESULT_FILE on disk, or NoFile
    MODEL,          \* whether the scoring model was loaded at startup
    boot_file,      \* history: RESULT_FILE as the process found it at startup
    last_export,    \* history: the table of the latest completed export
    prior_export,   \* history: the table of the completed export before it
    refused,        \* history: some predict returned before its export
    worker,         \* the request threads of the concurrent server
    published       \* history: the tables whose export was started

(***************************************************************************)
(* Bounds of the model.                                                    *)
(***************************************************************************)
MaxChars == 4       \* characters typed into the headers of one table
MaxCols == 2        \* headers of one table
MaxParts == 3       \* files plus rows that one request carries

(***************************************************************************)
(* Characters and cells.                                                   *)
(***************************************************************************)
UpperLetters ==
    <<"A","B","C","D","E","F","G","H","I","J","K","L","M",
      "N","O","P","Q","R","S","T","U","V","W","X","Y","Z">>

LowerLetters ==
    <<"a","b","c","d","e","f","g","h","i","j","k","l","m",
      "n","o","p","q","r","s","t","u","v","w","x","y","z">>

Digits == <<"0","1","2","3","4","5","6","7","8","9">>

Range(f) == {f[i] : i \in DOMAIN f}

UpperSet == Range(UpperLetters)
LetterSet == Range(UpperLetters) \cup Range(LowerLetters)
DigitSet == Range(Digits)

IsUpper(c) == c \in UpperSet
IsLetter(c) == c \in LetterSet
IsDigit(c) == c \in DigitSet
IsAlnum(c) == IsLetter(c) \/ IsDigit(c)

\* the regex class \w: letters, digits and the underscore
IsWordChar(c) == IsAlnum(c) \/ c = "_"

\* the regex class \s, which is also what str.strip() strips
IsSpaceChar(c) == c \in {" ", "\t", "\n", "\r", "\f"}

\* one character of str.lower()
LowerChar(c) ==
    IF IsUpper(c)
    THEN LowerLetters[CHOOSE i \in DOMAIN UpperLetters : UpperLetters[i] = c]
    ELSE c

Null == [t |-> "null", v |-> 0, s |-> <<>>]
Num(n) == [t |-> "num", v |-> n, s |-> <<>>]
Str(chars) == [t |-> "str", v |-> 0, s |-> chars]

RECURSIVE NatToStr(_)
NatToStr(n) ==
    IF n < 10 THEN <<Digits[n + 1]>>
    ELSE NatToStr(n \div 10) \o <<Digits[(n % 10) + 1]>>

\* str(x) of an integer
IntToStr(n) == IF n < 0 THEN <<"-">> \o NatToStr(0 - n) ELSE NatToStr(n)

(***************************************************************************)
(* The column cleaning chain of predict (app.py:184-190).                  *)
(***************************************************************************)
\* Index.astype(str): a header that is not text becomes its str()
AsTypeStr(h) == IF h.t = "num" THEN IntToStr(h.v) ELSE h.s

RECURSIVE LStrip(_)
LStrip(s) ==
    IF s # <<>> /\ IsSpaceChar(Head(s)) THEN LStrip(Tail(s)) ELSE s

RECURSIVE RStrip(_)
RStrip(s) ==
    IF s # <<>> /\ IsSpaceChar(s[Len(s)])
    THEN RStrip(SubSeq(s, 1, Len(s) - 1))
    ELSE s

\* .str.strip()
StrStrip(s) == RStrip(LStrip(s))

IsWordOrSpace(c) == IsWordChar(c) \/ IsSpaceChar(c)

\* .str.replace(r"[^\w\s]", "", regex=True)
StrRemovePunct(s) == SelectSeq(s, IsWordOrSpace)

\* .str.replace(" ", "_")
StrReplaceSpace(s) == [i \in DOMAIN s |-> IF s[i] = " " THEN "_" ELSE s[i]]

\* .str.lower()
StrLower(s) == [i \in DOMAIN s |-> LowerChar(s[i])]

\* the chain with its strip after the removal of the punctuation
CleanHeaderStripLater(h) ==
    StrLower(StrReplaceSpace(StrStrip(StrRemovePunct(AsTypeStr(h)))))

CleanHeader(h) ==
    StrLower(StrReplaceSpace(StrRemovePunct(StrStrip(AsTypeStr(h)))))

CleanColumns(cols) == [i \in DOMAIN cols |-> CleanHeader(cols[i])]

(***************************************************************************)
(* Names of the program.                                                   *)
(***************************************************************************)
order_id == <<"o","r","d","e","r","_","i","d">>

awb_number == <<"a","w","b","_","n","u","m","b","e","r">>

total_weight_as_per_x_kg ==
    <<"t","o","t","a","l","_","w","e","i","g","h","t","_","a","s","_",
      "p","e","r","_","x","_","k","g">>

weight_slab_as_per_x_kg ==
    <<"w","e","i","g","h","t","_","s","l","a","b","_","a","s","_",
      "p","e","r","_","x","_","k","g">>

total_weight_as_per_courier_company_kg ==
    <<"t","o","t","a","l","_","w","e","i","g","h","t","_","a","s","_",
      "p","e","r","_","c","o","u","r","i","e","r","_",
      "c","o","m","p","a","n","y","_","k","g">>

weight_slab_charged_by_courier_company_kg ==
    <<"w","e","i","g","h","t","_","s","l","a","b","_",
      "c","h","a","r","g","e","d","_","b","y","_",
      "c","o","u","r","i","e","r","_","c","o","m","p","a","n","y","_","k","g">>

delivery_zone_as_per_x ==
    <<"d","e","l","i","v","e","r","y","_","z","o","n","e","_","a","s","_",
      "p","e","r","_","x">>

delivery_zone_charged_by_courier_company ==
    <<"d","e","l","i","v","e","r","y","_","z","o","n","e","_",
      "c","h","a","r","g","e","d","_","b","y","_",
      "c","o","u","r","i","e","r","_","c","o","m","p","a","n","y">>

expected_charge_as_per_x_rs ==
    <<"e","x","p","e","c","t","e","d","_","c","h","a","r","g","e","_",
      "a","s","_","p","e","r","_","x","_","r","s">>

charges_billed_by_courier_company_rs ==
    <<"c","h","a","r","g","e","s","_","b","i","l","l","e","d","_","b","y","_",
      "c","o","u","r","i","e","r","_","c","o","m","p","a","n","y","_","r","s">>

difference == <<"d","i","f","f","e","r","e","n","c","e">>

required_cols ==
    << order_id, awb_number,
       total_weight_as_per_x_kg,
       weight_slab_as_per_x_kg,
       total_weight_as_per_courier_company_kg,
       weight_slab_charged_by_courier_company_kg,
       delivery_zone_as_per_x,
       delivery_zone_charged_by_courier_company,
       expected_charge_as_per_x_rs,
       charges_billed_by_courier_company_rs >>

ALLOWED_EXTS == { <<".","c","s","v">>, <<".","x","l","s","x">>, <<".","x","l","s">> }

NoFile == [columns |-> <<>>, rows |-> <<>>, exists |-> FALSE]

(***************************************************************************)
(* os.path.splitext and _allowed_file (app.py:72-74).                      *)
(***************************************************************************)
\* the largest index of s holding c, or 0
LastIndexOf(s, c) ==
    IF \E i \in DOMAIN s : s[i] = c
    THEN CHOOSE i \in DOMAIN s : s[i] = c /\ \A j \in DOMAIN s : s[j] = c => j <= i
    ELSE 0

\* the extension os.path.splitext gives: from the last dot of the last path
\* component, unless only dots precede it there
SplitExt(p) ==
    LET sep == LastIndexOf(p, "/")
        dot == LastIndexOf(p, ".")
    IN  IF dot > sep /\ \E k \in (sep + 1)..(dot - 1) : p[k] # "."
        THEN SubSeq(p, dot, Len(p))
        ELSE <<>>

_allowed_file(filename) == SplitExt(StrLower(filename)) \in ALLOWED_EXTS

(***************************************************************************)
(* Numbers in text: what float(), pd.to_numeric and read_csv accept        *)
(* (the model's numerals are optionally signed decimal integers).          *)
(***************************************************************************)
DigitVal(c) == (CHOOSE i \in DOMAIN Digits : Digits[i] = c) - 1

IsNumeral(s) ==
    LET body == IF s # <<>> /\ Head(s) = "-" THEN Tail(s) ELSE s
    IN  body # <<>> /\ \A i \in DOMAIN body : IsDigit(body[i])

RECURSIVE StrToNat(_)
StrToNat(s) ==
    IF s = <<>> THEN 0
    ELSE 10 * StrToNat(SubSeq(s, 1, Len(s) - 1)) + DigitVal(s[Len(s)])

\* the value of a numeral
StrToInt(s) == IF Head(s) = "-" THEN 0 - StrToNat(Tail(s)) ELSE StrToNat(s)

RECURSIVE SumSeq(_)
SumSeq(s) == IF s = <<>> THEN 0 ELSE Head(s) + SumSeq(Tail(s))

\* the quotient n / d (d > 0) rounded to the nearest integer
RoundDiv(n, d) == (2 * n + d) \div (2 * d)

(***************************************************************************)
(* DataFrames.                                                             *)
(***************************************************************************)
HasCol(df, name) == \E i \in DOMAIN df.columns : df.columns[i] = name

\* the position of the column called name
ColIndex(cols, name) ==
    CHOOSE i \in DOMAIN cols :
        cols[i] = name /\ \A j \in DOMAIN cols : cols[j] = name => i <= j

\* df[name]
Column(df, name) ==
    [r \in DOMAIN df.rows |-> df.rows[r][ColIndex(df.columns, name)]]

\* df.head(n)
DfHead(df, n) ==
    [df EXCEPT !.rows = SubSeq(df.rows, 1, IF Len(df.rows) < n THEN Len(df.rows) ELSE n)]

(***************************************************************************)
(* _read_dataframe (app.py:76-87).  A payload is the bytes of a csv file,  *)
(* of a workbook, or of neither: [format, columns, rows].                  *)
(***************************************************************************)
\* the text of a cell in a csv file
CellText(c) == IF c.t = "num" THEN IntToStr(c.v) ELSE c.s

\* pd.read_csv: a column whose filled cells are all numerals is numeric,
\* any other column keeps the text of its cells; an empty cell is missing
read_csv(payload) ==
    IF payload.format # "csv"
    THEN [ok |-> FALSE, df |-> [columns |-> <<>>, rows |-> <<>>]]
    ELSE LET text(r, j) == CellText(payload.rows[r][j])
             numeric(j) == \A r \in DOMAIN payload.rows :
                               text(r, j) = <<>> \/ IsNumeral(text(r, j))
             cell(r, j) == IF text(r, j) = <<>> THEN Null
                           ELSE IF numeric(j) THEN Num(StrToInt(text(r, j)))
                           ELSE Str(text(r, j))
         IN  [ok |-> TRUE,
              df |-> [columns |-> [j \in DOMAIN payload.columns |->
                                      Str(CellText(payload.columns[j]))],
                      rows |-> [r \in DOMAIN payload.rows |->
                                   [j \in DOMAIN payload.rows[r] |-> cell(r, j)]]]]

\* pd.read_excel: the cells of the first sheet with the types they have
read_excel(payload) ==
    IF payload.format # "excel"
    THEN [ok |-> FALSE, df |-> [columns |-> <<>>, rows |-> <<>>]]
    ELSE [ok |-> TRUE, df |-> [columns |-> payload.columns, rows |-> payload.rows]]

_read_dataframe(f) ==
    LET ext == SplitExt(StrLower(f.filename))
    IN  IF ext = <<".","c","s","v">> THEN read_csv(f.payload)
        ELSE IF ext \in { <<".","x","l","s","x">>, <<".","x","l","s">> }
             THEN read_excel(f.payload)
        ELSE [ok |-> FALSE, df |-> [columns |-> <<>>, rows |-> <<>>]]

(***************************************************************************)
(* The per-file loop of predict (app.py:171-222).                          *)
(***************************************************************************)
NA == Str(<<"N","/","A">>)

\* Series.astype(float): text that is no numeral raises ValueError
AsFloat(cells) ==
    [ok |-> \A i \in DOMAIN cells : cells[i].t = "str" => IsNumeral(cells[i].s),
     vals |-> [i \in DOMAIN cells |->
                  IF cells[i].t = "str" /\ IsNumeral(cells[i].s)
                  THEN Num(StrToInt(cells[i].s))
                  ELSE IF cells[i].t = "num" THEN cells[i] ELSE Null]]

IsNum(c) == c.t = "num"

\* the numbers of a float Series, the missing ones skipped
Present(vals) ==
    LET kept == SelectSeq(vals, IsNum) IN [i \in DOMAIN kept |-> kept[i].v]

\* round(Series.mean(), 3), in thousandths; NaN when nothing is present
MeanRound3(vals) ==
    LET xs == Present(vals)
    IN  IF xs = <<>> THEN Null ELSE Num(RoundDiv(1000 * SumSeq(xs), Len(xs)))

\* round(Series.sum(), 2)
SumRound2(vals) == Num(SumSeq(Present(vals)))

\* Series.value_counts().head(n): the distinct present values by falling
\* count, equal counts in the order of first appearance
ValueCounts(cells, n) ==
    LET present == {i \in DOMAIN cells : cells[i].t # "null"}
        firsts == {i \in present : \A j \in present : cells[j] = cells[i] => i <= j}
        count(i) == Cardinality({j \in present : cells[j] = cells[i]})
        rank(i) == 1 + Cardinality({j \in firsts :
                        \/ count(j) > count(i)
                        \/ count(j) = count(i) /\ j < i})
        at(k) == CHOOSE i \in firsts : rank(i) = k
        m == IF Cardinality(firsts) < n THEN Cardinality(firsts) ELSE n
    IN  [labels |-> [k \in 1..m |-> cells[at(k)]],
         data |-> [k \in 1..m |-> count(at(k))]]

\* the quick stats of one file (app.py:195-219); ok is FALSE when
\* astype(float) raises
FileSummary(filename, df) ==
    LET hasW == HasCol(df, total_weight_as_per_x_kg)
        hasC == HasCol(df, charges_billed_by_courier_company_rs)
        hasZ == HasCol(df, delivery_zone_as_per_x)
        w == IF hasW THEN AsFloat(Column(df, total_weight_as_per_x_kg))
             ELSE [ok |-> TRUE, vals |-> <<>>]
        c == IF hasC THEN AsFloat(Column(df, charges_billed_by_courier_company_rs))
             ELSE [ok |-> TRUE, vals |-> <<>>]
        grp == IF hasZ THEN ValueCounts(Column(df, delivery_zone_as_per_x), 10)
               ELSE [labels |-> <<>>, data |-> <<>>]
    IN  [ok |-> w.ok /\ c.ok,
         value |-> [filename |-> filename,
                    preview |-> DfHead(df, 10),
                    total_orders |-> Len(df.rows),
                    avg_weight |-> IF hasW /\ w.ok THEN MeanRound3(w.vals) ELSE NA,
                    total_cost |-> IF hasC /\ c.ok THEN SumRound2(c.vals) ELSE NA,
                    chart_labels |-> grp.labels,
                    chart_data |-> grp.data]]

Notice(kind, filename) == [category |-> "error", kind |-> kind, filename |-> filename]

NoLoop ==
    [dfs |-> <<>>, file_summaries |-> <<>>, flashed |-> <<>>,
     origin |-> [dfs |-> <<>>, file_summaries |-> <<>>, flashed |-> <<>>]]

\* "flash(...)" for upload i, which is then skipped
Skip(acc, kind, f, i) ==
    [acc EXCEPT !.flashed = Append(@, Notice(kind, f.filename)),
                !.origin.flashed = Append(@, i)]

\* the try block of the loop (app.py:180-222) for upload i
Ingest(acc, f, i) ==
    LET rd == _read_dataframe(f)
        df == [columns |-> CleanColumns(rd.df.columns), rows |-> rd.df.rows]
        st == FileSummary(f.filename, df)
    IN  IF ~rd.ok THEN Skip(acc, "Error in", f, i)
        ELSE IF ~st.ok
        THEN [Skip(acc, "Error in", f, i) EXCEPT
                 !.dfs = Append(@, df),
                 !.origin.dfs = Append(@, i)]
        ELSE [acc EXCEPT !.dfs = Append(@, df),
                         !.origin.dfs = Append(@, i),
                         !.file_summaries = Append(@, st.value),
                         !.origin.file_summaries = Append(@, i)]

\* an iteration in which a refused file also discards the tables read so far
LoopBodyDiscarding(acc, f, i) ==
    IF f.filename = <<>> \/ ~_allowed_file(f.filename)
    THEN [Skip(acc, "Unsupported file type", f, i) EXCEPT
             !.dfs = <<>>, !.origin.dfs = <<>>]
    ELSE Ingest(acc, f, i)

\* one iteration of "for f in uploads" on the lists built so far
LoopBody(acc, f, i) ==
    IF f.filename = <<>> \/ ~_allowed_file(f.filename)
    THEN Skip(acc, "Unsupported file type", f, i)
    ELSE Ingest(acc, f, i)

RECURSIVE FileLoop(_, _)
\* the lists after the first n uploads
FileLoop(ups, n) ==
    IF n = 0 THEN NoLoop ELSE LoopBody(FileLoop(ups, n - 1), ups[n], n)

(***************************************************************************)
(* The merge and the reconciliation of predict (app.py:224-268).           *)
(***************************************************************************)
NoTable == [columns |-> <<>>, rows |-> <<>>]

RECURSIVE UnionColumns(_, _)
\* the columns of pd.concat(tables): every name once, by first appearance
UnionColumns(tables, n) ==
    IF n = 0 THEN <<>>
    ELSE LET before == UnionColumns(tables, n - 1)
             seen(c) == \E i \in DOMAIN before : before[i] = c
             fresh(c) == ~seen(c)
         IN  before \o SelectSeq(tables[n].columns, fresh)

\* the rows of df laid out on cols, NaN where df has no such column
Reindex(df, cols) ==
    [r \in DOMAIN df.rows |->
        [j \in DOMAIN cols |->
            IF HasCol(df, cols[j])
            THEN df.rows[r][ColIndex(df.columns, cols[j])]
            ELSE Null]]

RECURSIVE ConcatRows(_, _, _)
ConcatRows(tables, cols, n) ==
    IF n = 0 THEN <<>>
    ELSE ConcatRows(tables, cols, n - 1) \o Reindex(tables[n], cols)

\* pd.concat(dfs, ignore_index=True)
Concat(tables) ==
    LET cols == UnionColumns(tables, Len(tables))
    IN  [columns |-> cols, rows |-> ConcatRows(tables, cols, Len(tables))]

\* df[name] = cells: the column is replaced in place, or added last
SetColumn(df, name, cells) ==
    IF HasCol(df, name)
    THEN [df EXCEPT !.rows =
             [r \in DOMAIN df.rows |->
                 [df.rows[r] EXCEPT ![ColIndex(df.columns, name)] = cells[r]]]]
    ELSE [columns |-> Append(df.columns, name),
          rows |-> [r \in DOMAIN df.rows |-> Append(df.rows[r], cells[r])]]

\* "for col in required_cols: if col not in merged_df.columns: ... = None":
\* the required columns df lacks are added after its own, in their order
AddRequired(df) ==
    LET lacks(c) == ~HasCol(df, c)
        missing == SelectSeq(required_cols, lacks)
        nulls == [k \in DOMAIN missing |-> Null]
    IN  [columns |-> df.columns \o missing,
         rows |-> [r \in DOMAIN df.rows |-> df.rows[r] \o nulls]]

\* pd.to_numeric(errors="coerce") of one cell
ToNumeric(c) ==
    IF c.t = "num" THEN c
    ELSE IF c.t = "str" /\ IsNumeral(c.s) THEN Num(StrToInt(c.s))
    ELSE Null

\* a subtraction that takes a missing charge for 0, as after fillna(0)
MinusFilled(a, b) ==
    Num((IF a.t = "num" THEN a.v ELSE 0) - (IF b.t = "num" THEN b.v ELSE 0))

\* a - b of two float cells: NaN when either is
Minus(a, b) == IF a.t = "num" /\ b.t = "num" THEN Num(a.v - b.v) ELSE Null

\* the difference column (app.py:246-249)
Difference(df) ==
    LET e == Column(df, expected_charge_as_per_x_rs)
        b == Column(df, charges_billed_by_courier_company_rs)
    IN  [r \in DOMAIN df.rows |-> Minus(ToNumeric(e[r]), ToNumeric(b[r]))]

\* merged_df of predict, the difference column included
Merge(tables) ==
    LET m == AddRequired(Concat(tables))
    IN  SetColumn(m, difference, Difference(m))

RECURSIVE PySum(_)
\* Series.sum() of a column as it is stored: numbers add, texts
\* concatenate, a number and a text raise TypeError
PySum(cells) ==
    IF cells = <<>> THEN [ok |-> TRUE, val |-> Num(0)]
    ELSE IF Len(cells) = 1 THEN [ok |-> TRUE, val |-> cells[1]]
    ELSE LET acc == PySum(SubSeq(cells, 1, Len(cells) - 1))
             x == cells[Len(cells)]
         IN  IF ~acc.ok \/ acc.val.t # x.t THEN [ok |-> FALSE, val |-> Null]
             ELSE IF x.t = "num" THEN [ok |-> TRUE, val |-> Num(acc.val.v + x.v)]
             ELSE [ok |-> TRUE, val |-> Str(acc.val.s \o x.s)]

\* float(x): ValueError on text that is no numeral
PyFloat(r) ==
    IF ~r.ok THEN r
    ELSE IF r.val.t = "num" THEN r
    ELSE IF IsNumeral(r.val.s) THEN [ok |-> TRUE, val |-> Num(StrToInt(r.val.s))]
    ELSE [ok |-> FALSE, val |-> Null]

\* the increasing sequence of the members of a finite set of numbers
RECURSIVE Ascending(_)
Ascending(S) ==
    IF S = {} THEN <<>>
    ELSE LET m == CHOOSE x \in S : \A y \in S : y <= x
         IN  Append(Ascending(S \ {m}), m)

IsZero(x) == x = 0

\* the comparison of the over bucket written as "<= 0"
IsNegativeOrZero(x) == x <= 0

IsNegative(x) == x < 0
IsPositive(x) == x > 0

\* the rows selected by merged_df["difference"] == 0, in order; a
\* comparison with NaN is False
CorrectRows(df) ==
    LET d == Column(df, difference)
    IN  Ascending({r \in DOMAIN df.rows : d[r].t = "num" /\ IsZero(d[r].v)})

\* the rows selected by merged_df["difference"] < 0
OverRows(df) ==
    LET d == Column(df, difference)
    IN  Ascending({r \in DOMAIN df.rows : d[r].t = "num" /\ IsNegative(d[r].v)})

\* the rows selected by merged_df["difference"] > 0
UnderRows(df) ==
    LET d == Column(df, difference)
    IN  Ascending({r \in DOMAIN df.rows : d[r].t = "num" /\ IsPositive(d[r].v)})

NoSummary ==
    [computed |-> FALSE,
     correct |-> [count |-> 0, amount |-> 0],
     over |-> [count |-> 0, amount |-> 0],
     under |-> [count |-> 0, amount |-> 0]]

\* float(merged_df.loc[difference == 0, "charges_billed_..."].sum())
CorrectAmount(df, eq) ==
    LET billed == Column(df, charges_billed_by_courier_company_rs)
    IN  PyFloat(PySum([k \in DOMAIN eq |-> billed[eq[k]]]))

\* the over amount without its "* -1"
OverAmountUnflipped(df, lt) ==
    LET d == Column(df, difference)
    IN  SumSeq([k \in DOMAIN lt |-> d[lt[k]].v])

\* float((merged_df.loc[difference < 0, "difference"] * -1).sum())
OverAmount(df, lt) ==
    LET d == Column(df, difference)
    IN  SumSeq([k \in DOMAIN lt |-> d[lt[k]].v * (0 - 1)])

\* float(merged_df.loc[difference > 0, "difference"].sum())
UnderAmount(df, gt) ==
    LET d == Column(df, difference)
    IN  SumSeq([k \in DOMAIN gt |-> d[gt[k]].v])

\* the summary dict (app.py:252-265); ok is FALSE when float() of the
\* correct amount raises
Summary(df) ==
    LET eq == CorrectRows(df)
        lt == OverRows(df)
        gt == UnderRows(df)
        camt == CorrectAmount(df, eq)
    IN  [ok |-> camt.ok,
         value |->
            [computed |-> TRUE,
             correct |-> [count |-> Len(eq),
                          amount |-> IF camt.ok THEN camt.val.v ELSE 0],
             over |-> [count |-> Len(lt), amount |-> OverAmount(df, lt)],
             under |-> [count |-> Len(gt), amount |-> UnderAmount(df, gt)]]]

(***************************************************************************)
(* The request handlers predict (app.py:159-296) and download              *)
(* (app.py:299-305), each as a function of the request and the state.      *)
(***************************************************************************)
Users == {"asha", "ravi"}

\* what the opaque scoring function does when it is called
Scoring == {"returns", "raises"}

NoResponse ==
    [kind |-> "none", username |-> "", model_ready |-> FALSE,
     merged_table |-> <<>>, chart_data |-> <<>>, prediction |-> "", file |-> NoFile]

\* redirect(url_for("dashboard"))
Redirect == [NoResponse EXCEPT !.kind = "redirect"]

\* an exception no handler catches: the framework answers 500
ServerError == [NoResponse EXCEPT !.kind = "error500"]

\* DataFrame.to_excel(RESULT_FILE, index=False), the file once written
ExcelFile(df) == [columns |-> df.columns, rows |-> df.rows, exists |-> TRUE]

\* the prediction text (app.py:274-284)
PredictionText(model, df, scoring) ==
    IF ~model THEN "Model not loaded."
    ELSE IF df.rows = <<>> THEN "Prediction skipped (no numeric features)."
    ELSE IF scoring = "returns" THEN "ML Insights"
    ELSE "Prediction failed"

\* a run of predict that ends before the merge
Refused(loop, text) ==
    [dfs |-> loop.dfs, file_summaries |-> loop.file_summaries,
     flashed |-> Append(loop.flashed, Notice(text, <<>>)),
     origin |-> loop.origin,
     merged_df |-> NoTable, summary |-> NoSummary, ended |-> "redirect"]

\* predict from the merge on (app.py:229-271), given the lists of the loop
Reconcile(loop, merged) ==
    LET sm == Summary(merged)
    IN  [dfs |-> loop.dfs, file_summaries |-> loop.file_summaries,
         flashed |-> loop.flashed, origin |-> loop.origin,
         merged_df |-> merged,
         summary |-> IF sm.ok THEN sm.value ELSE NoSummary,
         ended |-> IF sm.ok THEN "dashboard" ELSE "error500"]

\* predict after its per-file loop (app.py:224-271)
AfterLoop(loop) ==
    IF loop.dfs = <<>> THEN Refused(loop, "No valid files processed.")
    ELSE CHOOSE run \in {Reconcile(loop, merged) : merged \in {Merge(loop.dfs)}} : TRUE

\* the locals of predict when it ends, and how it ends: "redirect" (a
\* return before the merge), "error500" (float() raised at app.py:255) or
\* "dashboard" (the export at app.py:271 and the render were reached)
PredictRun(ups) ==
    IF ups = <<>> THEN Refused(NoLoop, "No files uploaded.")
    ELSE IF \A i \in DOMAIN ups : ups[i].filename = <<>>
    THEN Refused(NoLoop, "Please select at least one file.")
    ELSE CHOOSE run \in {AfterLoop(loop) : loop \in {FileLoop(ups, Len(ups))}} : TRUE

\* the response of predict (app.py:163-169, 224-226, 286-296)
PredictResponse(run, username, model, scoring) ==
    IF run.ended = "redirect" THEN Redirect
    ELSE IF run.ended = "error500" THEN ServerError
    ELSE [kind |-> "dashboard", username |-> username,
          model_ready |-> model,
          merged_table |-> DfHead(run.merged_df, 50).rows,
          chart_data |-> <<run.summary.correct.count,
                           run.summary.over.count,
                           run.summary.under.count>>,
          prediction |-> PredictionText(model, run.merged_df, scoring),
          file |-> NoFile]

\* a predict that removes RESULT_FILE when it returns before its export
ResultFileAfterClearing(run, file) ==
    IF run.ended = "dashboard" THEN ExcelFile(run.merged_df) ELSE NoFile

\* RESULT_FILE after a run of predict: written only by the export, which
\* the early returns (app.py:162-169, 224-226) never reach
ResultFileAfter(run, file) ==
    IF run.ended = "dashboard" THEN ExcelFile(run.merged_df) ELSE file

\* a download that sends RESULT_FILE without looking for it
DownloadRunUnchecked(file) ==
    [flashed |-> <<>>, response |-> [NoResponse EXCEPT !.kind = "file", !.file = file]]

\* what download answers for the file it finds
DownloadRun(file) ==
    IF file.exists
    THEN [flashed |-> <<>>, response |-> [NoResponse EXCEPT !.kind = "file", !.file = file]]
    ELSE [flashed |-> <<Notice("No result file available.", <<>>)>>,
          response |-> Redirect]

(***************************************************************************)
(* The requests a client can send: files of the layouts below, filled row  *)
(* by row.                                                                 *)
(***************************************************************************)
HdrOrder == Str(<<"O","r","d","e","r"," ","I","D">>)
HdrExpected == Str(<<"E","x","p","e","c","t","e","d"," ","C","h","a","r","g","e"," ","a","s"," ","p","e","r"," ","X"," ","(","R","s",".",")">>)
HdrBilled == Str(<<"C","h","a","r","g","e","s"," ","B","i","l","l","e","d"," ","b","y"," ","C","o","u","r","i","e","r"," ","C","o","m","p","a","n","y"," ","(","R","s",".",")">>)
HdrWeight == Str(<<"T","o","t","a","l"," ","w","e","i","g","h","t"," ","a","s"," ","p","e","r"," ","X"," ","(","K","G",")">>)
HdrZone == Str(<<"D","e","l","i","v","e","r","y"," ","Z","o","n","e"," ","a","s"," ","p","e","r"," ","X">>)

ChargesCsv ==
    [filename |-> <<"a",".","c","s","v">>,
     payload |-> [format |-> "csv",
                  columns |-> <<HdrOrder, HdrExpected, HdrBilled>>, rows |-> <<>>]]

ChargesXlsx ==
    [filename |-> <<"B",".","X","L","S","X">>,
     payload |-> [format |-> "excel",
                  columns |-> <<HdrOrder, HdrExpected, HdrBilled>>, rows |-> <<>>]]

WeightsCsv ==
    [filename |-> <<"w",".","c","s","v">>,
     payload |-> [format |-> "csv",
                  columns |-> <<HdrWeight, HdrZone>>, rows |-> <<>>]]

\* a file whose extension is not allowed
TextFile ==
    [filename |-> <<"n",".","t","x","t">>,
     payload |-> [format |-> "csv", columns |-> <<Str(<<"n","o","t","e">>)>>,
                  rows |-> <<>>]]

\* a file part with no filename
Unnamed ==
    [filename |-> <<>>,
     payload |-> [format |-> "invalid", columns |-> <<>>, rows |-> <<>>]]

\* a .csv whose bytes pandas cannot parse
BrokenCsv ==
    [filename |-> <<"x",".","c","s","v">>,
     payload |-> [format |-> "invalid", columns |-> <<>>, rows |-> <<>>]]

\* the file of the worked example: order_id, expected, billed with the
\* rows (A1, 100, 90) and (A2, 50, 50)
ExampleCsv ==
    [filename |-> <<"e",".","c","s","v">>,
     payload |-> [format |-> "csv",
                  columns |-> <<Str(order_id), Str(expected_charge_as_per_x_rs),
                                Str(charges_billed_by_courier_company_rs)>>,
                  rows |-> << <<Str(<<"A","1">>), Num(100), Num(90)>>,
                              <<Str(<<"A","2">>), Num(50), Num(50)>> >>]]

AllShells == {ChargesCsv, ChargesXlsx, WeightsCsv, TextFile, Unnamed, BrokenCsv}

AllCharges == {Null, Num(1), Num(0 - 1), Str(<<"x">>)}
Weights == {Null, Num(1), Str(<<"x">>)}
Zones == {Str(<<"b">>), Str(<<"d">>)}

RECURSIVE CountRows(_, _)
CountRows(ups, n) ==
    IF n = 0 THEN 0 ELSE CountRows(ups, n - 1) + Len(ups[n].payload.rows)

\* the files and rows of a request
Size(ups) == Len(ups) + CountRows(ups, Len(ups))

\* the rows a client can add to file f, the k-th part of its request
RowsFor(f, k, charges) ==
    IF f.payload.format = "invalid" \/ f.payload.columns = <<>> THEN {}
    ELSE IF f.payload.columns[1] = HdrOrder
    THEN {<<Str(<<"A">> \o IntToStr(k)), e, b>> : e \in charges, b \in charges}
    ELSE IF f.payload.columns[1] = HdrWeight
    THEN {<<w, z>> : w \in Weights, z \in Zones}
    ELSE {}

WithRows(f, rows) == [f EXCEPT !.payload.rows = rows]

\* the forms the concurrent clients post: two that reconcile, into
\* different tables, and one with no valid file
ConcRequests ==
    { <<WithRows(ChargesCsv, << <<Str(<<"A","1">>), Num(1), Num(1)>> >>)>>,
      <<WithRows(ChargesXlsx, << <<Str(<<"B","1">>), Num(1), Num(0 - 1)>>,
                                 <<Str(<<"B","2">>), Num(0 - 1), Num(1)>> >>)>>,
      <<TextFile>> }

\* a form with a file of a refused type and a file pandas cannot parse
\* between two files with rows
MixedRequest ==
    << WithRows(ChargesCsv, << <<Str(<<"A","1">>), Num(1), Num(0 - 1)>> >>),
       TextFile,
       BrokenCsv,
       WithRows(ChargesXlsx, << <<Str(<<"B","1">>), Num(0 - 1), Num(1)>>,
                                <<Str(<<"B","2">>), Num(1), Num(1)>> >>) >>

\* the forms posted one after another: those, a form with no file chosen
\* and a form with a bad file before a good one
SeqRequests ==
    ConcRequests \cup
    { <<Unnamed>>,
      <<BrokenCsv,
        WithRows(ChargesCsv, << <<Str(<<"A","2">>), Num(1), Num(0 - 1)>> >>)>> }

(***************************************************************************)
(* State and actions.                                                      *)
(***************************************************************************)
normVars == <<raw_columns, columns, norm_pc>>
localVars == <<dfs, file_summaries, flashed, origin, merged_df, summary>>
diskVars == <<result_file, last_export, prior_export, refused>>
bootVars == <<MODEL, boot_file>>
concVars == <<worker, published>>
vars == <<normVars, uploads, localVars, response, diskVars, bootVars, concVars>>

\* RESULT_FILE left in the instance folder by an earlier run of the program
StaleExport ==
    [columns |-> Append(required_cols, difference),
     rows |-> << [j \in 1..(Len(required_cols) + 1) |->
                    IF j = 1 THEN Str(<<"o","l","d">>) ELSE Null] >>,
     exists |-> TRUE]

Threads == {"t1", "t2"}

IdleWorker == [pc |-> "idle", table |-> NoFile, pos |-> 0, out |-> NoResponse]

RequestInit ==
    /\ dfs = <<>>
    /\ file_summaries = <<>>
    /\ flashed = <<>>
    /\ origin = NoLoop.origin
    /\ merged_df = NoTable
    /\ summary = NoSummary
    /\ response = NoResponse

NormIdle ==
    /\ raw_columns = <<>>
    /\ columns = <<>>
    /\ norm_pc = "raw"

ConcIdle ==
    /\ worker = [t \in Threads |-> IdleWorker]
    /\ published = {}

\* the process after start-up (app.py:17-70): RESULT_FILE is whatever the
\* instance folder holds, MODEL is loaded or not
Init ==
    /\ NormIdle
    /\ ConcIdle
    /\ RequestInit
    /\ uploads = <<>>
    /\ MODEL \in BOOLEAN
    /\ result_file \in {NoFile, StaleExport}
    /\ boot_file = result_file
    /\ last_export = NoFile
    /\ prior_export = NoFile
    /\ refused = FALSE

\* no request has been answered since the client began this one
Sending == response.kind = "none"

\* the client fills the form with the files of one request
Fill(requests) ==
    /\ Sending
    /\ uploads = <<>>
    /\ \E ups \in requests : uploads' = ups
    /\ UNCHANGED <<normVars, localVars, response, diskVars, bootVars, concVars>>

\* the client attaches one more file to the form
Attach(shells) ==
    /\ Sending
    /\ Size(uploads) < MaxParts
    /\ \E f \in shells : uploads' = Append(uploads, f)
    /\ UNCHANGED <<normVars, localVars, response, diskVars, bootVars, concVars>>

\* the client's last file has one more row
AddRow(charges) ==
    /\ Sending
    /\ uploads # <<>>
    /\ Size(uploads) < MaxParts
    /\ \E row \in RowsFor(uploads[Len(uploads)], Size(uploads), charges) :
          uploads' = [uploads EXCEPT ![Len(uploads)].payload.rows = Append(@, row)]
    /\ UNCHANGED <<normVars, localVars, response, diskVars, bootVars, concVars>>

\* POST /predict with the form's files, handled from start to end
predict(who) ==
    /\ Sending
    /\ \E run \in {PredictRun(uploads)} :
           /\ dfs' = run.dfs
           /\ file_summaries' = run.file_summaries
           /\ flashed' = run.flashed
           /\ origin' = run.origin
           /\ merged_df' = run.merged_df
           /\ summary' = run.summary
           /\ result_file' = ResultFileAfter(run, result_file)
           /\ last_export' = IF run.ended = "dashboard"
                             THEN [columns |-> run.merged_df.columns,
                                   rows |-> run.merged_df.rows, exists |-> TRUE]
                             ELSE last_export
           /\ prior_export' = IF run.ended = "dashboard"
                              THEN last_export ELSE prior_export
           /\ refused' = (refused \/ run.ended # "dashboard")
           /\ \E u \in who, sc \in Scoring :
                 response' = PredictResponse(run, u, MODEL, sc)
    /\ UNCHANGED <<normVars, uploads, bootVars, concVars>>

\* GET /download, handled from start to end
download ==
    /\ Sending
    /\ uploads = <<>>
    /\ \E run \in {DownloadRun(result_file)} :
           /\ flashed' = run.flashed
           /\ response' = run.response
    /\ UNCHANGED <<normVars, uploads, dfs, file_summaries, origin, merged_df,
                   summary, diskVars, bootVars, concVars>>

\* the client has its answer and begins another request
NextRequest ==
    /\ ~Sending
    /\ uploads' = <<>>
    /\ dfs' = <<>>
    /\ file_summaries' = <<>>
    /\ flashed' = <<>>
    /\ origin' = NoLoop.origin
    /\ merged_df' = NoTable
    /\ summary' = NoSummary
    /\ response' = NoResponse
    /\ UNCHANGED <<normVars, diskVars, bootVars, concVars>>

\* requests of one process, handled one after another
Next ==
    \/ Fill(SeqRequests)
    \/ predict(Users)
    \/ download
    \/ NextRequest

Spec == Init /\ [][Next]_vars

(***************************************************************************)
(* One reconciliation over every request within the bounds, over the       *)
(* worked example and over a mixed form, by one user of a process that     *)
(* loaded its scoring model and found no RESULT_FILE.                      *)
(***************************************************************************)
ReconInit ==
    /\ NormIdle
    /\ ConcIdle
    /\ RequestInit
    /\ uploads \in {<<>>, <<ExampleCsv>>, MixedRequest}
    /\ MODEL = TRUE
    /\ result_file = NoFile
    /\ boot_file = NoFile
    /\ last_export = NoFile
    /\ prior_export = NoFile
    /\ refused = FALSE

ReconNext ==
    \/ Attach(AllShells)
    \/ AddRow(AllCharges)
    \/ predict({"asha"})

ReconSpec == ReconInit /\ [][ReconNext]_vars

(***************************************************************************)
(* The column cleaning on its own: a table's headers are typed character   *)
(* by character, then cleaned (app.py:184-190).                            *)
(***************************************************************************)
ExampleHeader == Str(<<" ","T","o","t","a","l"," ","W","e","i","g","h","t"," ","(","k","g",")","!"," ">>)

\* the characters a header is typed from: a capital, a small letter, a
\* digit, a space, an underscore, a punctuation mark and a tab
Alphabet == {"A", "b", "1", " ", "_", "!", "\t"}

\* a header cell as it starts: empty text, or a number (a numeric cell of a
\* workbook's first row)
FreshHeaders == {Str(<<>>), Num(7)}

RECURSIVE CountChars(_, _)
CountChars(cols, n) ==
    IF n = 0 THEN 0 ELSE CountChars(cols, n - 1) + Len(cols[n].s)

NormInit ==
    /\ raw_columns \in {<<>>, <<ExampleHeader>>}
    /\ columns = <<>>
    /\ norm_pc = "raw"
    /\ ConcIdle
    /\ RequestInit
    /\ uploads = <<>>
    /\ MODEL = FALSE
    /\ result_file = NoFile
    /\ boot_file = NoFile
    /\ last_export = NoFile
    /\ prior_export = NoFile
    /\ refused = FALSE

NewColumn ==
    /\ norm_pc = "raw"
    /\ Len(raw_columns) < MaxCols
    /\ \E h \in FreshHeaders : raw_columns' = Append(raw_columns, h)
    /\ UNCHANGED <<columns, norm_pc, uploads, localVars, response, diskVars,
                   bootVars, concVars>>

TypeChar ==
    /\ norm_pc = "raw"
    /\ raw_columns # <<>>
    /\ raw_columns[Len(raw_columns)].t = "str"
    /\ CountChars(raw_columns, Len(raw_columns)) < MaxChars
    /\ \E c \in Alphabet :
          raw_columns' = [raw_columns EXCEPT ![Len(raw_columns)].s = Append(@, c)]
    /\ UNCHANGED <<columns, norm_pc, uploads, localVars, response, diskVars,
                   bootVars, concVars>>

\* "df.columns = (df.columns.astype(str) ... .str.lower())"
CleanColumnNames ==
    /\ norm_pc = "raw"
    /\ columns' = CleanColumns(raw_columns)
    /\ norm_pc' = "clean"
    /\ UNCHANGED <<raw_columns, uploads, localVars, response, diskVars,
                   bootVars, concVars>>

NormNext ==
    \/ NewColumn
    \/ TypeChar
    \/ CleanColumnNames

NormSpec == NormInit /\ [][NormNext]_vars

(***************************************************************************)
(* Requests handled concurrently by the threads of the server.  to_excel   *)
(* (app.py:271) opens RESULT_FILE for writing, which empties it, and the   *)
(* workbook reaches the file in pieces until the writer closes it: here    *)
(* the header row, then one row at a time.  Each writer has its own file   *)
(* position.                                                               *)
(***************************************************************************)
\* a piece of the file that nothing has written
Hole == <<>>

EmptyFile == [columns |-> <<>>, rows |-> <<>>, exists |-> TRUE]

\* rows with position k holding row, the positions never written left holes
WriteAt(rows, k, row) ==
    [i \in 1..(IF Len(rows) < k THEN k ELSE Len(rows)) |->
        IF i = k THEN row ELSE IF i <= Len(rows) THEN rows[i] ELSE Hole]

\* what predict does with each of these forms
ConcRuns == {PredictRun(ups) : ups \in ConcRequests}

\* a process that loaded no scoring model
ConcInit ==
    /\ NormIdle
    /\ ConcIdle
    /\ RequestInit
    /\ uploads = <<>>
    /\ MODEL = FALSE
    /\ result_file \in {NoFile, StaleExport}
    /\ boot_file = result_file
    /\ last_export = NoFile
    /\ prior_export = NoFile
    /\ refused = FALSE

\* thread t runs predict up to the export
ConcPredict(t) ==
    /\ worker[t].pc = "idle"
    /\ \E run \in ConcRuns, u \in Users, sc \in Scoring :
          IF run.ended = "dashboard"
          THEN /\ worker' = [worker EXCEPT ![t] =
                      [pc |-> "open", table |-> ExcelFile(run.merged_df),
                       pos |-> 0, out |-> PredictResponse(run, u, MODEL, sc)]]
               /\ published' = published \cup {ExcelFile(run.merged_df)}
          ELSE /\ worker' = [worker EXCEPT ![t].out =
                                PredictResponse(run, u, MODEL, sc)]
               /\ UNCHANGED published
    /\ UNCHANGED <<normVars, uploads, localVars, response, diskVars, bootVars>>

\* to_excel opens RESULT_FILE for writing
ConcOpen(t) ==
    /\ worker[t].pc = "open"
    /\ result_file' = EmptyFile
    /\ worker' = [worker EXCEPT ![t].pc = "write"]
    /\ UNCHANGED <<normVars, uploads, localVars, response, last_export,
                   prior_export, refused, bootVars, published>>

\* the next piece of the workbook reaches the file
ConcWrite(t) ==
    /\ worker[t].pc = "write"
    /\ worker[t].pos <= Len(worker[t].table.rows)
    /\ result_file' =
          IF worker[t].pos = 0
          THEN [result_file EXCEPT !.columns = worker[t].table.columns,
                                   !.exists = TRUE]
          ELSE [result_file EXCEPT
                   !.rows = WriteAt(@, worker[t].pos,
                                    worker[t].table.rows[worker[t].pos]),
                   !.exists = TRUE]
    /\ worker' = [worker EXCEPT ![t].pos = @ + 1]
    /\ UNCHANGED <<normVars, uploads, localVars, response, last_export,
                   prior_export, refused, bootVars, published>>

\* the writer closes the file and predict renders its answer
ConcClose(t) ==
    /\ worker[t].pc = "write"
    /\ worker[t].pos > Len(worker[t].table.rows)
    /\ worker' = [worker EXCEPT ![t].pc = "idle"]
    /\ UNCHANGED <<normVars, uploads, localVars, response, diskVars, bootVars,
                   published>>

\* thread t runs download
ConcDownload(t) ==
    /\ worker[t].pc = "idle"
    /\ worker' = [worker EXCEPT ![t].out = DownloadRun(result_file).response]
    /\ UNCHANGED <<normVars, uploads, localVars, response, diskVars, bootVars,
                   published>>

ConcNext ==
    \E t \in Threads :
        \/ ConcPredict(t)
        \/ ConcOpen(t)
        \/ ConcWrite(t)
        \/ ConcClose(t)
        \/ ConcDownload(t)

ConcSpec == ConcInit /\ [][ConcNext]_vars

(***************************************************************************)
(* Properties of the reconciliation (ReconSpec).                           *)
(***************************************************************************)
RECURSIVE SumOver(_, _)
\* the sum of f over the finite set S
SumOver(S, f) ==
    IF S = {} THEN 0
    ELSE LET x == CHOOSE y \in S : TRUE IN f[x] + SumOver(S \ {x}, f)

Abs(x) == IF x < 0 THEN 0 - x ELSE x

MergedRows == DOMAIN merged_df.rows
MergedCell(r, name) == merged_df.rows[r][ColIndex(merged_df.columns, name)]
DiffCell(r) == MergedCell(r, difference)
ExpectedCell(r) == MergedCell(r, expected_charge_as_per_x_rs)
BilledCell(r) == MergedCell(r, charges_billed_by_courier_company_rs)

\* the merged rows with a difference, and their differences
DiffRows == {r \in MergedRows : DiffCell(r).t = "num"}
DiffValue == [r \in DiffRows |-> DiffCell(r).v]
ZeroRows == {r \in DiffRows : DiffValue[r] = 0}
NegRows == {r \in DiffRows : DiffValue[r] < 0}
PosRows == {r \in DiffRows : DiffValue[r] > 0}

\* a charge that is missing or is text that is no number
Unusable(c) == c.t = "null" \/ (c.t = "str" /\ ~IsNumeral(c.s))

\* C1: in every summary predict computes, each merged row with a difference
\* is counted in the one bucket of its sign (0 correct, negative over,
\* positive under), difference being expected minus billed; the over amount
\* is the absolute value of the sum of the negative differences, the under
\* amount the sum of the positive ones; and the file with the rows
\* (A1,100,90), (A2,50,50) gives correct 1/50, over 0/0, under 1/10.
SignBuckets ==
    summary.computed =>
        /\ summary.correct.count = Cardinality(ZeroRows)
        /\ summary.over.count = Cardinality(NegRows)
        /\ summary.under.count = Cardinality(PosRows)
        /\ summary.over.amount = Abs(SumOver(NegRows, DiffValue))
        /\ summary.under.amount = SumOver(PosRows, DiffValue)
        /\ \A r \in MergedRows :
              ExpectedCell(r).t = "num" /\ BilledCell(r).t = "num"
                  => DiffCell(r) = Num(ExpectedCell(r).v - BilledCell(r).v)
        /\ uploads = <<ExampleCsv>> =>
              /\ summary.correct = [count |-> 1, amount |-> 50]
              /\ summary.over = [count |-> 0, amount |-> 0]
              /\ summary.under = [count |-> 1, amount |-> 10]

\* a summary with an overcharged and an undercharged row
SignBucketsWitness ==
    /\ summary.computed
    /\ summary.over.count >= 1
    /\ summary.under.count >= 1

\* C2: in every summary, the three counts add up to at most the number of
\* merged rows, and to exactly that number iff no merged row has a null
\* difference; a row's difference is null exactly when its expected or its
\* billed charge is missing or not numeric.
BucketsCoverNonNull ==
    summary.computed =>
        LET total == summary.correct.count + summary.over.count
                     + summary.under.count
            nulls == {r \in MergedRows : DiffCell(r).t = "null"}
        IN  /\ total <= Len(merged_df.rows)
            /\ total = Len(merged_df.rows) <=> nulls = {}
            /\ \A r \in MergedRows :
                  r \in nulls <=> Unusable(ExpectedCell(r)) \/ Unusable(BilledCell(r))

\* a summary that counts a row and leaves out a row with a null difference
BucketsWitness ==
    /\ summary.computed
    /\ \E r \in MergedRows : DiffCell(r).t = "null"
    /\ summary.correct.count + summary.over.count + summary.under.count >= 1

\* C3 as stated: the amounts of all three buckets are never negative.
AllAmountsNonNegative ==
    summary.computed =>
        /\ summary.correct.amount >= 0
        /\ summary.over.amount >= 0
        /\ summary.under.amount >= 0

\* C3, amended: the over and the under amount are never negative, whatever
\* the signs of the charges; the correct amount, a sum of billed charges, is
\* negative only if a correctly charged row has a negative billed charge.
OverUnderNonNegative ==
    summary.computed =>
        /\ summary.over.amount >= 0
        /\ summary.under.amount >= 0
        /\ summary.correct.amount < 0 =>
              \E r \in ZeroRows :
                  \/ BilledCell(r).t = "num" /\ BilledCell(r).v < 0
                  \/ BilledCell(r).t = "str" /\ Head(BilledCell(r).s) = "-"

\* a summary with an overcharged row and a negative correct amount
NegativeCorrectWitness ==
    /\ summary.computed
    /\ summary.over.count >= 1
    /\ summary.correct.amount < 0

(***************************************************************************)
(* Properties of the per-file loop (ReconSpec).                            *)
(***************************************************************************)
Answered == response.kind # "none"

\* predict went past its early returns into the loop over the uploads
LoopRan ==
    /\ Answered
    /\ uploads # <<>>
    /\ \E i \in DOMAIN uploads : uploads[i].filename # <<>>

\* the uploads with a name, an allowed extension and bytes pandas can read
GoodUploads ==
    {i \in DOMAIN uploads :
        /\ uploads[i].filename # <<>>
        /\ _allowed_file(uploads[i].filename)
        /\ _read_dataframe(uploads[i]).ok}

\* the table read from upload i, and the merged row its k-th row goes to
TableOf(i) == _read_dataframe(uploads[i]).df
RowCount == [i \in DOMAIN uploads |-> Len(uploads[i].payload.rows)]
Offset(i) == SumOver({j \in GoodUploads : j < i}, RowCount)

NoValidNotice == Notice("No valid files processed.", <<>>)
Flashed(n) == \E k \in DOMAIN flashed : flashed[k] = n

\* C4: whenever the loop of predict ran over uploads of which at least
\* one is valid, wherever the bad ones sit, the merged table consists of the
\* rows of the valid files, file after file in upload order and row after
\* row in file order, each cell under its cleaned header; and the notice
\* "No valid files processed." is flashed only when no upload was valid.
BatchSurvivesBadFiles ==
    LoopRan =>
        /\ GoodUploads # {} =>
              /\ ~Flashed(NoValidNotice)
              /\ Len(merged_df.rows) = SumOver(GoodUploads, RowCount)
              /\ \A i \in GoodUploads :
                    LET df == TableOf(i)
                        first == Offset(i)
                        at == [j \in DOMAIN df.columns |->
                                  ColIndex(merged_df.columns, CleanHeader(df.columns[j]))]
                    IN  \A k \in DOMAIN df.rows :
                           \A j \in DOMAIN df.columns :
                              merged_df.rows[first + k][at[j]] = df.rows[k][j]
        /\ Flashed(NoValidNotice) => GoodUploads = {}

\* a reconciliation of two valid files with rows, the later with several,
\* and a bad file between them
BadBetweenGoodWitness ==
    /\ LoopRan
    /\ response.kind = "dashboard"
    /\ \E i, j, k \in DOMAIN uploads :
          /\ i < j /\ j < k
          /\ i \in GoodUploads /\ uploads[i].payload.rows # <<>>
          /\ j \notin GoodUploads
          /\ k \in GoodUploads /\ Len(uploads[k].payload.rows) > 1

\* the weight or the billed charge of upload i holds text that is no number
HasUnparseable(i) ==
    LET df == TableOf(i)
    IN  \E j \in DOMAIN df.columns :
           /\ CleanHeader(df.columns[j]) \in
                 {total_weight_as_per_x_kg, charges_billed_by_courier_company_rs}
           /\ \E k \in DOMAIN df.rows :
                 df.rows[k][j].t = "str" /\ ~IsNumeral(df.rows[k][j].s)

SummaryOf(i) == {k \in DOMAIN file_summaries : origin.file_summaries[k] = i}
TableIn(i) == {k \in DOMAIN dfs : origin.dfs[k] = i}
NoticeOf(i) == {k \in DOMAIN origin.flashed : origin.flashed[k] = i}

\* C5 as stated: a valid file whose weight or billed charge holds text that
\* is no number is still summarized, and no error notice is flashed for it.
UnparseableIsMissing ==
    LoopRan =>
        \A i \in GoodUploads :
            HasUnparseable(i) => SummaryOf(i) # {} /\ NoticeOf(i) = {}

\* C10 as stated: after the loop every upload either has one table in dfs,
\* one per-file summary and no notice, or has one notice and neither table
\* nor summary; dfs and file_summaries are as long and of the same files.
LoopPartitionsUploads ==
    LoopRan =>
        /\ \A i \in DOMAIN uploads :
              \/ /\ Cardinality(TableIn(i)) = 1
                 /\ Cardinality(SummaryOf(i)) = 1
                 /\ NoticeOf(i) = {}
              \/ /\ Cardinality(NoticeOf(i)) = 1
                 /\ TableIn(i) = {}
                 /\ SummaryOf(i) = {}
        /\ Len(dfs) = Len(file_summaries)
        /\ origin.dfs = origin.file_summaries

(***************************************************************************)
(* Properties of the export across the requests of one process (Spec).     *)
(***************************************************************************)
NoResultNotice == Notice("No result file available.", <<>>)

\* the request just answered was a download
DownloadAnswered == response.kind = "file" \/ Flashed(NoResultNotice)

\* the answer of a download that finds nothing to send
ExportUnavailable ==
    /\ response = Redirect
    /\ flashed = <<NoResultNotice>>

\* C6 as stated: a download with no successful reconciliation before it
\* in the life of the process answers "no result available", never a file.
DownloadNeedsReconciliation ==
    DownloadAnswered /\ ~last_export.exists => ExportUnavailable

\* C6, amended: a download with no successful reconciliation before it in
\* the life of the process, failed predict requests or none, answers "no
\* result available" unless RESULT_FILE was already there when the process
\* started; then it answers with that file.
DownloadNeedsExportFile ==
    DownloadAnswered /\ ~last_export.exists =>
        IF boot_file.exists
        THEN response.kind = "file" /\ response.file = boot_file
        ELSE ExportUnavailable

\* a download refused after a predict that failed, nothing exported so far
RefusedDownloadWitness ==
    /\ refused
    /\ ~last_export.exists
    /\ ExportUnavailable

\* C7: RESULT_FILE is one slot for all users: it always holds the merged
\* table of the latest successful reconciliation, so a predict that returns
\* before its export leaves it as it was (as does any request before the
\* first export), and a download answers with exactly that table, not with
\* the one exported before it.
SingleExportSlot ==
    /\ result_file = IF last_export.exists THEN last_export ELSE boot_file
    /\ DownloadAnswered /\ last_export.exists =>
          /\ response.kind = "file"
          /\ response.file.columns = last_export.columns
          /\ response.file.rows = last_export.rows
          /\ prior_export # last_export => response.file # prior_export

\* a download after two reconciliations of different tables and a predict
\* that failed
LatestExportWitness ==
    /\ response.kind = "file"
    /\ prior_export.exists
    /\ prior_export # last_export
    /\ refused
    /\ response.file = last_export

(***************************************************************************)
(* Properties of the export under concurrent requests (ConcSpec).          *)
(***************************************************************************)
\* the complete files: what the process found at start-up and every table
\* some predict set out to export
CompleteExports == published \cup {boot_file}

\* C8 as stated: the export is atomic for its readers: every download that
\* sends a file sends a complete export, the previous one or the new one,
\* and when no predict is writing RESULT_FILE holds a complete export.
AtomicExport ==
    /\ \A t \in Threads :
          worker[t].out.kind = "file" => worker[t].out.file \in CompleteExports
    /\ (\A t \in Threads : worker[t].pc = "idle") =>
          result_file \in CompleteExports

(***************************************************************************)
(* Properties of the column normalization (NormSpec).                      *)
(***************************************************************************)
\* the text of a header: str() of a number, the text itself otherwise
HeaderText(h) == IF h.t = "num" THEN IntToStr(h.v) ELSE h.s

\* s without the whitespace before its first and after its last character
\* that is no whitespace
Core(s) ==
    LET inked == {i \in DOMAIN s : ~IsSpaceChar(s[i])}
    IN  IF inked = {} THEN <<>>
        ELSE SubSeq(s, CHOOSE i \in inked : \A j \in inked : i <= j,
                       CHOOSE i \in inked : \A j \in inked : j <= i)

\* what becomes of a character that is kept
Written(c) == IF c = " " THEN "_" ELSE LowerChar(c)

AlnumOrSpace(c) == IsAlnum(c) \/ IsSpaceChar(c)
AlnumUnderscoreOrSpace(c) == IsAlnum(c) \/ c = "_" \/ IsSpaceChar(c)

\* the five steps as worded: step 3 removes every character that is not
\* alphanumeric or whitespace, the underscore with them
WordedHeader(h) ==
    LET kept == SelectSeq(Core(HeaderText(h)), AlnumOrSpace)
    IN  [i \in DOMAIN kept |-> Written(kept[i])]

\* the five steps with step 3 sparing the underscore
SparingHeader(h) ==
    LET kept == SelectSeq(Core(HeaderText(h)), AlnumUnderscoreOrSpace)
    IN  [i \in DOMAIN kept |-> Written(kept[i])]

total_weight_kg == <<"t","o","t","a","l","_","w","e","i","g","h","t","_","k","g">>

\* C9 as stated: the cleaned headers are the results of the five steps as
\* worded, as many and in the same order as the headers read, and
\* " Total Weight (kg)! " becomes total_weight_kg.
NormalizationAsWorded ==
    norm_pc = "clean" =>
        /\ Len(columns) = Len(raw_columns)
        /\ \A i \in DOMAIN raw_columns :
              /\ columns[i] = WordedHeader(raw_columns[i])
              /\ raw_columns[i] = ExampleHeader => columns[i] = total_weight_kg

\* C9, amended: the cleaned headers are the results of: convert to string,
\* strip leading and trailing whitespace, remove every character that is
\* not alphanumeric, underscore or whitespace, replace each remaining space
\* with an underscore, lowercase; they are as many and in the same order as
\* the headers read, and " Total Weight (kg)! " becomes total_weight_kg.
NormalizationKeepsUnderscore ==
    norm_pc = "clean" =>
        /\ Len(columns) = Len(raw_columns)
        /\ \A i \in DOMAIN raw_columns :
              /\ columns[i] = SparingHeader(raw_columns[i])
              /\ raw_columns[i] = ExampleHeader => columns[i] = total_weight_kg

\* cleaned headers, one of them from text with an underscore, a space, a
\* capital and a punctuation mark
UnderscoreWitness ==
    /\ norm_pc = "clean"
    /\ \E i \in DOMAIN raw_columns :
          /\ raw_columns[i].t = "str"
          /\ {"_", " ", "A", "!"} \subseteq Range(raw_columns[i].s)
          /\ columns[i] # WordedHeader(raw_columns[i])

====
